---- MODULE Spec2Model ----
(***************************************************************************)
(* examples/send_otlp_logs.py: a session of main().  The script builds a   *)
(* resource, picks an OTLP exporter (gRPC or HTTP), wires a logger         *)
(* provider with a batch processor and a logging handler, emits records    *)
(* in a loop and shuts the provider down in a finally block.               *)
(*                                                                         *)
(* The state is main()'s control position and locals, the logging          *)
(* configuration it installs, and the batch processor's queue together    *)
(* with what the transport has observed.                                   *)
(***************************************************************************)
EXTENDS Integers, Sequences, FiniteSets, TLC

VARIABLES
    pc,              \* control position of main()
    grpcAvail,       \* environment: the gRPC exporter package can be imported
    httpAvail,       \* environment: the HTTP exporter package can be imported
    args_http,       \* args.http
    resource,        \* the Resource created at lines 89-94 (<<>> before)
    otlp_exporter,   \* the exporter returned by get_exporter (NoExporter before)
    logger_provider, \* "none", "active" or "shutdown"
    processors,      \* number of processors added to the logger provider
    rootHandlers,    \* number of LoggingHandlers on the root logger
    rootLevel,       \* level of the root logger
    i,               \* loop variable of "for i in range(...)"
    cur,             \* locals level, message, extra of the current iteration
    choices,         \* history: the catalog index random.choice picked, per iteration
    emitted,         \* history: one entry per logging call made by the loop
    printed,         \* number of "Sent: ..." lines printed
    handed,          \* history: records accepted by the batch processor
    queue,           \* batch processor: records buffered, not yet exported
    transport,       \* records the transport has observed, in order
    failed,          \* records of batches whose export failed
    surfaced,        \* delivery failures main() has been told of
    shutdownCalls,   \* number of logger_provider.shutdown() calls made by main()
    pending,         \* exception in flight ("none" when there is none)
    interruptedAt,   \* number of logging calls made when the interrupt hit (-1: none)
    exitStatus       \* process exit status (-1 while running)

vars == <<pc, grpcAvail, httpAvail, args_http, resource, otlp_exporter,
          logger_provider, processors, rootHandlers, rootLevel, i, cur,
          choices, emitted, printed, handed, queue, transport, failed, surfaced,
          shutdownCalls, pending, interruptedAt, exitStatus>>

(***************************************************************************)
(* Bounds of the model.                                                    *)
(***************************************************************************)
\* iterations of the emission loop: the script's range(20), cut down to
\* keep the state space finite and small
NumRecords == 2

\* range(20): the number of iterations of the script's loop
RangeStop == 20

(***************************************************************************)
(* Levels of the logging module used by the script.                        *)
(***************************************************************************)
NOTSET == 0
TRACE_LEVEL == 5
DEBUG == 10
INFO == 20
WARNING == 30
ERROR == 40
CRITICAL == 50

\* the catalog of (severity, message) pairs
log_messages ==
    << <<"INFO", "[INFO] Application started successfully">>,
       <<"INFO", "[INFO] Connecting to database">>,
       <<"DEBUG", "[DEBUG] Database connection pool initialized">>,
       <<"INFO", "[INFO] Processing user request">>,
       <<"WARNING", "[WARN] High memory usage detected">>,
       <<"ERROR", "[ERROR] Failed to connect to external API">>,
       <<"INFO", "[INFO] Retrying connection...">>,
       <<"INFO", "[INFO] Successfully processed request">>,
       <<"DEBUG", "[DEBUG] Cache hit for key: user_123">>,
       <<"INFO", "[INFO] Request completed in 245ms">>,
       <<"TRACE", "[TRACE] Detailed trace information">>,
       <<"FATAL", "[FATAL] Critical system failure">> >>

Endpoints == <<"/api/users", "/api/products", "/api/orders">>
Methods == <<"GET", "POST", "PUT", "DELETE">>
StatusCodes == <<200, 201, 400, 404, 500>>
UserIdLo == 100
UserIdHi == 999
LatencyLo == 10
LatencyHi == 500

\* Resource.create({...}) of main()
ResourceAttrs ==
    [service_name |-> "example-python-app",
     service_version |-> "1.0.0",
     environment |-> "development",
     host_name |-> "localhost"]

NoExporter == [protocol |-> "none", endpoint |-> "", insecure |-> FALSE]
SystemExit == [protocol |-> "SystemExit", endpoint |-> "", insecure |-> FALSE]
NoLocals == [level |-> "", message |-> "", extra |-> <<>>]

\* get_exporter with a fallback to the other transport (not the script's)
get_exporter_fallback(use_http) ==
    IF use_http
    THEN IF httpAvail
         THEN [protocol |-> "http", endpoint |-> "http://localhost:4318/v1/logs",
               insecure |-> FALSE]
         ELSE IF grpcAvail
              THEN [protocol |-> "grpc", endpoint |-> "localhost:4317",
                    insecure |-> TRUE]
              ELSE SystemExit
    ELSE IF grpcAvail
         THEN [protocol |-> "grpc", endpoint |-> "localhost:4317", insecure |-> TRUE]
         ELSE IF httpAvail
              THEN [protocol |-> "http",
                    endpoint |-> "http://localhost:4318/v1/logs",
                    insecure |-> FALSE]
              ELSE SystemExit

\* get_exporter(use_http): the exporter of the requested transport, or
\* sys.exit(1) when its import fails
get_exporter(use_http) ==
    IF use_http
    THEN IF httpAvail
         THEN [protocol |-> "http", endpoint |-> "http://localhost:4318/v1/logs",
               insecure |-> FALSE]
         ELSE SystemExit
    ELSE IF grpcAvail
         THEN [protocol |-> "grpc", endpoint |-> "localhost:4317", insecure |-> TRUE]
         ELSE SystemExit

\* f"{n}": no zero padding (not the script's)
Pad4Unpadded(n) == ToString(n)

\* f"{n:04d}"
Pad4(n) ==
    IF n >= 10000
    THEN ToString(n)
    ELSE ToString((n \div 1000) % 10) \o ToString((n \div 100) % 10)
         \o ToString((n \div 10) % 10) \o ToString(n % 10)

\* randint that treats hi as one short of the largest value (not the
\* script's)
RandIntPastHi(lo, hi, r) == lo + ((r * (hi - lo + 1)) % (hi - lo + 2))

\* random.randint(lo, hi) in generator state r: a value of lo..hi, the two
\* ends first
RandInt(lo, hi, r) == lo + ((r * (hi - lo)) % (hi - lo + 1))

\* the extra dict of iteration k; r stands for the state of the random
\* generator after random.choice, which fixes the outcome of the five
\* attribute draws
RandomExtra(k, r) ==
    [request_id |-> "req_" \o Pad4(k),
     user_id |-> "user_" \o ToString(RandInt(UserIdLo, UserIdHi, r)),
     latency_ms |-> RandInt(LatencyLo, LatencyHi, r),
     endpoint |-> Endpoints[(r % Len(Endpoints)) + 1],
     method |-> Methods[(r % Len(Methods)) + 1],
     status_code |-> StatusCodes[(r % Len(StatusCodes)) + 1]]

Init ==
    /\ pc = "parse_args"
    /\ grpcAvail \in BOOLEAN
    /\ httpAvail \in BOOLEAN
    /\ args_http = FALSE
    /\ resource = <<>>
    /\ otlp_exporter = NoExporter
    /\ logger_provider = "none"
    /\ processors = 0
    /\ rootHandlers = 0
    /\ rootLevel = WARNING
    /\ i = 0
    /\ cur = NoLocals
    /\ choices = <<>>
    /\ emitted = <<>>
    /\ printed = 0
    /\ handed = <<>>
    /\ queue = <<>>
    /\ transport = <<>>
    /\ failed = <<>>
    /\ surfaced = <<>>
    /\ shutdownCalls = 0
    /\ pending = "none"
    /\ interruptedAt = -1
    /\ exitStatus = -1

\* lines 84-86: parser.parse_args()
ParseArgs ==
    /\ pc = "parse_args"
    /\ \E h \in BOOLEAN : args_http' = h
    /\ pc' = "resource"
    /\ UNCHANGED <<grpcAvail, httpAvail, resource, otlp_exporter,
                   logger_provider, processors, rootHandlers, rootLevel, i, cur,
                   choices, emitted, printed, handed, queue, transport, failed,
                   surfaced, shutdownCalls, pending, interruptedAt, exitStatus>>

\* CreateResource that leaves host.name out (not the script's)
CreateResourceWithoutHost ==
    /\ pc = "resource"
    /\ resource' = [service_name |-> "example-python-app",
                    service_version |-> "1.0.0",
                    environment |-> "development"]
    /\ pc' = "get_exporter"
    /\ UNCHANGED <<grpcAvail, httpAvail, args_http, otlp_exporter,
                   logger_provider, processors, rootHandlers, rootLevel, i,
                   cur, choices, emitted, printed, handed, queue, transport,
                   failed, surfaced, shutdownCalls, pending, interruptedAt,
                   exitStatus>>

\* lines 89-94: Resource.create({...})
CreateResource ==
    /\ pc = "resource"
    /\ resource' = ResourceAttrs
    /\ pc' = "get_exporter"
    /\ UNCHANGED <<grpcAvail, httpAvail, args_http, otlp_exporter,
                   logger_provider, processors, rootHandlers, rootLevel, i, cur,
                   choices, emitted, printed, handed, queue, transport, failed,
                   surfaced, shutdownCalls, pending, interruptedAt, exitStatus>>

\* GetExporter whose ImportError branch reports the error but does not end
\* the process (not the script's)
GetExporterNoExit ==
    /\ pc = "get_exporter"
    /\ LET e == get_exporter(args_http)
       IN otlp_exporter' = IF e = SystemExit THEN NoExporter ELSE e
    /\ pc' = "provider"
    /\ UNCHANGED <<grpcAvail, httpAvail, args_http, resource, logger_provider,
                   processors, rootHandlers, rootLevel, i, cur, choices,
                   emitted, printed, handed, queue, transport, failed, surfaced,
                   shutdownCalls, pending, interruptedAt, exitStatus>>

\* line 97: otlp_exporter = get_exporter(use_http=args.http); sys.exit(1)
\* inside get_exporter ends the process
GetExporter ==
    /\ pc = "get_exporter"
    /\ LET e == get_exporter(args_http)
       IN IF e = SystemExit
          THEN /\ pc' = "exited"
               /\ exitStatus' = 1
               /\ UNCHANGED otlp_exporter
          ELSE /\ pc' = "provider"
               /\ otlp_exporter' = e
               /\ UNCHANGED exitStatus
    /\ UNCHANGED <<grpcAvail, httpAvail, args_http, resource, logger_provider,
                   processors, rootHandlers, rootLevel, i, cur, choices,
                   emitted, printed, handed, queue, transport, failed, surfaced,
                   shutdownCalls, pending, interruptedAt>>

\* lines 100-101: LoggerProvider(resource=resource); set_logger_provider
CreateProvider ==
    /\ pc = "provider"
    /\ logger_provider' = "active"
    /\ pc' = "processor"
    /\ UNCHANGED <<grpcAvail, httpAvail, args_http, resource, otlp_exporter,
                   processors, rootHandlers, rootLevel, i, cur, choices,
                   emitted, printed, handed, queue, transport, failed, surfaced,
                   shutdownCalls, pending, interruptedAt, exitStatus>>

\* lines 104-106: add_log_record_processor(BatchLogRecordProcessor(otlp_exporter))
AddProcessor ==
    /\ pc = "processor"
    /\ processors' = processors + 1
    /\ pc' = "handler"
    /\ UNCHANGED <<grpcAvail, httpAvail, args_http, resource, otlp_exporter,
                   logger_provider, rootHandlers, rootLevel, i, cur, choices,
                   emitted, printed, handed, queue, transport, failed, surfaced,
                   shutdownCalls, pending, interruptedAt, exitStatus>>

\* ConfigureLogging with the root logger at DEBUG (not the script's)
ConfigureLoggingAtDebug ==
    /\ pc = "handler"
    /\ rootHandlers' = rootHandlers + 1
    /\ rootLevel' = DEBUG
    /\ pc' = "banner"
    /\ UNCHANGED <<grpcAvail, httpAvail, args_http, resource, otlp_exporter,
                   logger_provider, processors, i, cur, choices, emitted,
                   printed, handed, queue, transport, failed, surfaced,
                   shutdownCalls, pending, interruptedAt, exitStatus>>

\* lines 109-114: root logger gets the LoggingHandler and level INFO; the
\* module logger is left at NOTSET
ConfigureLogging ==
    /\ pc = "handler"
    /\ rootHandlers' = rootHandlers + 1
    /\ rootLevel' = INFO
    /\ pc' = "banner"
    /\ UNCHANGED <<grpcAvail, httpAvail, args_http, resource, otlp_exporter,
                   logger_provider, processors, i, cur, choices, emitted,
                   printed, handed, queue, transport, failed, surfaced,
                   shutdownCalls, pending, interruptedAt, exitStatus>>

\* lines 116-122: the banner is printed and the try block is entered
PrintBanner ==
    /\ pc = "banner"
    /\ pc' = "for"
    /\ UNCHANGED <<grpcAvail, httpAvail, args_http, resource, otlp_exporter,
                   logger_provider, processors, rootHandlers, rootLevel, i, cur,
                   choices, emitted, printed, handed, queue, transport, failed,
                   surfaced, shutdownCalls, pending, interruptedAt, exitStatus>>

SetupPcs == {"parse_args", "resource", "get_exporter", "provider", "processor",
             "handler", "banner"}
LoopPcs == {"for", "log", "sleep"}
FinalPcs == {"done", "exited", "raised"}

\* NextRecord of a loop that runs one iteration too many (not the
\* script's)
NextRecordOneMore ==
    /\ pc = "for"
    /\ IF i <= NumRecords
       THEN /\ \E c \in 1..Len(log_messages) :
                  /\ cur' = [level |-> log_messages[c][1],
                             message |-> log_messages[c][2],
                             extra |-> RandomExtra(i, c + i)]
                  /\ choices' = Append(choices, c)
            /\ pc' = "log"
       ELSE /\ pc' = "finally"
            /\ UNCHANGED <<cur, choices>>
    /\ UNCHANGED <<grpcAvail, httpAvail, args_http, resource, otlp_exporter,
                   logger_provider, processors, rootHandlers, rootLevel, i,
                   emitted, printed, handed, queue, transport, failed,
                   surfaced, shutdownCalls, pending, interruptedAt,
                   exitStatus>>

\* lines 124-135: the for statement takes the next index, or ends the
\* loop; random.choice(log_messages) picks entry c and the extra dict is
\* built from the random draws that follow
NextRecord ==
    /\ pc = "for"
    /\ IF i < NumRecords
       THEN /\ \E c \in 1..Len(log_messages) :
                  /\ cur' = [level |-> log_messages[c][1],
                             message |-> log_messages[c][2],
                             extra |-> RandomExtra(i, c + i)]
                  /\ choices' = Append(choices, c)
            /\ pc' = "log"
       ELSE /\ pc' = "finally"
            /\ UNCHANGED <<cur, choices>>
    /\ UNCHANGED <<grpcAvail, httpAvail, args_http, resource, otlp_exporter,
                   logger_provider, processors, rootHandlers, rootLevel, i,
                   emitted, printed, handed, queue, transport, failed, surfaced,
                   shutdownCalls, pending, interruptedAt, exitStatus>>

\* the if/elif chain without its last branch (not the script's)
LevelNoWithoutFatal(level) ==
    IF level = "TRACE" THEN TRACE_LEVEL
    ELSE IF level = "DEBUG" THEN DEBUG
    ELSE IF level = "INFO" THEN INFO
    ELSE IF level = "WARNING" THEN WARNING
    ELSE IF level = "ERROR" THEN ERROR
    ELSE -1

\* lines 138-150: the level of the logging call the if/elif chain makes
\* for a severity tag (-1: no branch matches, no call)
LevelNo(level) ==
    IF level = "TRACE" THEN TRACE_LEVEL
    ELSE IF level = "DEBUG" THEN DEBUG
    ELSE IF level = "INFO" THEN INFO
    ELSE IF level = "WARNING" THEN WARNING
    ELSE IF level = "ERROR" THEN ERROR
    ELSE IF level = "FATAL" THEN CRITICAL
    ELSE -1

\* level of logging.getLogger(__name__), which main() never sets
LoggerLevel == NOTSET

\* level of the LoggingHandler (level=logging.NOTSET)
HandlerLevel == NOTSET

\* Logger.getEffectiveLevel of the module logger: its own level if set,
\* else the level of its parent, the root logger
EffectiveLevel == IF LoggerLevel /= NOTSET THEN LoggerLevel ELSE rootLevel

\* Logger.isEnabledFor(levelno)
IsEnabledFor(levelno) == levelno >= EffectiveLevel

\* LogRecord that stamps the exporter's endpoint on the record (not the
\* script's)
LogRecordTagged(levelno, message, extra) ==
    [severity_number |-> levelno,
     body |-> message,
     attributes |-> extra,
     resource |-> [resource EXCEPT !.host_name = otlp_exporter.endpoint]]

\* the record the LoggingHandler builds from a logging call
LogRecord(levelno, message, extra) ==
    [severity_number |-> levelno,
     body |-> message,
     attributes |-> extra,
     resource |-> resource]

\* n copies of x
Copies(x, n) == [k \in 1..n |-> x]

\* what one logging call appends to the batch processor's queue: one copy
\* per root handler and processor, nothing when the level is disabled or
\* the provider is shut down
Accepted(levelno, message, extra) ==
    IF /\ levelno >= 0
       /\ IsEnabledFor(levelno)
       /\ levelno >= HandlerLevel
       /\ logger_provider = "active"
    THEN Copies(LogRecord(levelno, message, extra), rootHandlers * processors)
    ELSE <<>>

\* Log with a processor that puts new records at the head of its queue
\* (not the script's)
LogLifo ==
    /\ pc = "log"
    /\ LET levelno == LevelNo(cur.level)
           acc == Accepted(levelno, cur.message, cur.extra)
       IN /\ emitted' = IF levelno >= 0 THEN Append(emitted, cur) ELSE emitted
          /\ queue' = acc \o queue
          /\ handed' = handed \o acc
    /\ printed' = printed + 1
    /\ pc' = "sleep"
    /\ UNCHANGED <<grpcAvail, httpAvail, args_http, resource, otlp_exporter,
                   logger_provider, processors, rootHandlers, rootLevel, i, cur,
                   choices, transport, failed, surfaced, shutdownCalls, pending,
                   interruptedAt, exitStatus>>

\* lines 137-152: the logging call of the iteration and the "Sent: ..."
\* line printed after it
Log ==
    /\ pc = "log"
    /\ LET levelno == LevelNo(cur.level)
           acc == Accepted(levelno, cur.message, cur.extra)
       IN /\ emitted' = IF levelno >= 0 THEN Append(emitted, cur) ELSE emitted
          /\ queue' = queue \o acc
          /\ handed' = handed \o acc
    /\ printed' = printed + 1
    /\ pc' = "sleep"
    /\ UNCHANGED <<grpcAvail, httpAvail, args_http, resource, otlp_exporter,
                   logger_provider, processors, rootHandlers, rootLevel, i, cur,
                   choices, transport, failed, surfaced, shutdownCalls, pending,
                   interruptedAt, exitStatus>>

\* line 155: time.sleep(0.5), then the next iteration
Sleep ==
    /\ pc = "sleep"
    /\ i' = i + 1
    /\ pc' = "for"
    /\ UNCHANGED <<grpcAvail, httpAvail, args_http, resource, otlp_exporter,
                   logger_provider, processors, rootHandlers, rootLevel, cur,
                   choices, emitted, printed, handed, queue, transport, failed,
                   surfaced, shutdownCalls, pending, interruptedAt, exitStatus>>

\* Export whose failure is raised in main() (not the script's)
ExportFailureRaises ==
    /\ logger_provider = "active"
    /\ processors > 0
    /\ pc \in LoopPcs \cup {"except", "finally"}
    /\ queue /= <<>>
    /\ \E ok \in BOOLEAN :
          IF ok
          THEN /\ transport' = transport \o queue
               /\ UNCHANGED <<failed, pc, pending>>
          ELSE /\ failed' = failed \o queue
               /\ pc' = IF pc \in LoopPcs THEN "finally" ELSE pc
               /\ pending' = IF pc \in LoopPcs THEN "DeliveryError" ELSE pending
               /\ UNCHANGED transport
    /\ queue' = <<>>
    /\ UNCHANGED <<grpcAvail, httpAvail, args_http, resource, otlp_exporter,
                   logger_provider, processors, rootHandlers, rootLevel, i, cur,
                   choices, emitted, printed, handed, surfaced, shutdownCalls,
                   interruptedAt, exitStatus>>

\* the batch processor's worker exports what is queued while main() runs;
\* the export succeeds (the transport observes the batch) or fails
Export ==
    /\ logger_provider = "active"
    /\ processors > 0
    /\ pc \in LoopPcs \cup {"except", "finally"}
    /\ queue /= <<>>
    /\ \E ok \in BOOLEAN :
          IF ok
          THEN transport' = transport \o queue /\ UNCHANGED failed
          ELSE failed' = failed \o queue /\ UNCHANGED transport
    /\ queue' = <<>>
    /\ UNCHANGED <<pc, grpcAvail, httpAvail, args_http, resource, otlp_exporter,
                   logger_provider, processors, rootHandlers, rootLevel, i, cur,
                   choices, emitted, printed, handed, surfaced, shutdownCalls,
                   pending, interruptedAt, exitStatus>>

\* KeyboardInterrupt in a try statement without the except clause: the
\* interrupt stays in flight through the finally block (not the script's)
KeyboardInterruptUncaught ==
    /\ pc \in LoopPcs
    /\ pc' = "finally"
    /\ pending' = "Interrupt"
    /\ interruptedAt' = Len(emitted)
    /\ UNCHANGED <<grpcAvail, httpAvail, args_http, resource, otlp_exporter,
                   logger_provider, processors, rootHandlers, rootLevel, i,
                   cur, choices, emitted, printed, handed, queue, transport,
                   failed, surfaced, shutdownCalls, exitStatus>>

\* KeyboardInterrupt raised inside the try block (lines 122-155)
KeyboardInterrupt ==
    /\ pc \in LoopPcs
    /\ pc' = "except"
    /\ interruptedAt' = Len(emitted)
    /\ UNCHANGED <<grpcAvail, httpAvail, args_http, resource, otlp_exporter,
                   logger_provider, processors, rootHandlers, rootLevel, i, cur,
                   choices, emitted, printed, handed, queue, transport, failed,
                   surfaced, shutdownCalls, pending, exitStatus>>

\* any other exception raised inside the try block: no except clause
\* matches, the finally block runs with the exception in flight
OtherException ==
    /\ pc \in LoopPcs
    /\ pending' = "Exception"
    /\ pc' = "finally"
    /\ UNCHANGED <<grpcAvail, httpAvail, args_http, resource, otlp_exporter,
                   logger_provider, processors, rootHandlers, rootLevel, i, cur,
                   choices, emitted, printed, handed, queue, transport, failed,
                   surfaced, shutdownCalls, interruptedAt, exitStatus>>

\* ExceptHandler that leaves main() without running the finally block
\* (not the script's)
ExceptHandlerSkipsFinally ==
    /\ pc = "except"
    /\ pc' = "done"
    /\ exitStatus' = 0
    /\ UNCHANGED <<grpcAvail, httpAvail, args_http, resource, otlp_exporter,
                   logger_provider, processors, rootHandlers, rootLevel, i, cur,
                   choices, emitted, printed, handed, queue, transport, failed,
                   surfaced, shutdownCalls, pending, interruptedAt>>

\* lines 157-158: except KeyboardInterrupt: print("\nStopping...")
ExceptHandler ==
    /\ pc = "except"
    /\ pc' = "finally"
    /\ UNCHANGED <<grpcAvail, httpAvail, args_http, resource, otlp_exporter,
                   logger_provider, processors, rootHandlers, rootLevel, i, cur,
                   choices, emitted, printed, handed, queue, transport, failed,
                   surfaced, shutdownCalls, pending, interruptedAt, exitStatus>>

\* Finally of a try statement placed inside the loop body: after the
\* shutdown the loop goes on (not the script's)
FinallyInsideLoop ==
    /\ pc = "finally"
    /\ \E ok \in BOOLEAN :
          IF ok \/ queue = <<>>
          THEN transport' = transport \o queue /\ UNCHANGED failed
          ELSE failed' = failed \o queue /\ UNCHANGED transport
    /\ queue' = <<>>
    /\ logger_provider' = "shutdown"
    /\ shutdownCalls' = shutdownCalls + 1
    /\ pc' = IF pending /= "none" THEN "raised"
             ELSE IF i < NumRecords THEN "sleep" ELSE "done"
    /\ exitStatus' = IF pending /= "none" THEN 1
                     ELSE IF i < NumRecords THEN exitStatus ELSE 0
    /\ UNCHANGED <<grpcAvail, httpAvail, args_http, resource, otlp_exporter,
                   processors, rootHandlers, rootLevel, i, cur, choices,
                   emitted, printed, handed, surfaced, pending, interruptedAt>>

\* lines 160-163: logger_provider.shutdown() flushes what is queued (the
\* export succeeds or fails), its result is not looked at; then main()
\* returns, or the exception in flight propagates
Finally ==
    /\ pc = "finally"
    /\ \E ok \in BOOLEAN :
          IF ok \/ queue = <<>>
          THEN transport' = transport \o queue /\ UNCHANGED failed
          ELSE failed' = failed \o queue /\ UNCHANGED transport
    /\ queue' = <<>>
    /\ logger_provider' = "shutdown"
    /\ shutdownCalls' = shutdownCalls + 1
    /\ pc' = IF pending = "none" THEN "done" ELSE "raised"
    /\ exitStatus' = IF pending = "none" THEN 0 ELSE 1
    /\ UNCHANGED <<grpcAvail, httpAvail, args_http, resource, otlp_exporter,
                   processors, rootHandlers, rootLevel, i, cur, choices,
                   emitted, printed, handed, surfaced, pending, interruptedAt>>

\* InterruptSetup of a try statement that also wraps the setup: the
\* interrupt is caught and the finally block runs (not the script's)
InterruptSetupInsideTry ==
    /\ pc \in SetupPcs
    /\ pc' = "except"
    /\ interruptedAt' = 0
    /\ UNCHANGED <<grpcAvail, httpAvail, args_http, resource, otlp_exporter,
                   logger_provider, processors, rootHandlers, rootLevel, i,
                   cur, choices, emitted, printed, handed, queue, transport,
                   failed, surfaced, shutdownCalls, pending, exitStatus>>

\* KeyboardInterrupt raised before the try block is entered: it propagates
\* out of main()
InterruptSetup ==
    /\ pc \in SetupPcs
    /\ pending' = "KeyboardInterrupt"
    /\ pc' = "raised"
    /\ exitStatus' = 130
    /\ UNCHANGED <<grpcAvail, httpAvail, args_http, resource, otlp_exporter,
                   logger_provider, processors, rootHandlers, rootLevel, i, cur,
                   choices, emitted, printed, handed, queue, transport, failed,
                   surfaced, shutdownCalls, interruptedAt>>

Next ==
    \/ ParseArgs
    \/ CreateResource
    \/ GetExporter
    \/ CreateProvider
    \/ AddProcessor
    \/ ConfigureLogging
    \/ PrintBanner
    \/ NextRecord
    \/ Log
    \/ Sleep
    \/ Export
    \/ KeyboardInterrupt
    \/ OtherException
    \/ ExceptHandler
    \/ Finally
    \/ InterruptSetup

Spec == Init /\ [][Next]_vars

\* the steps of main()'s own thread inside the try statement
MainStep == NextRecord \/ Log \/ Sleep \/ ExceptHandler \/ Finally

\* main()'s thread keeps running: every logging call, sleep and shutdown
\* returns
FairSpec == Spec /\ WF_vars(MainStep)

(***************************************************************************)
(* Helpers of the properties.                                              *)
(***************************************************************************)
Range(q) == {q[k] : k \in 1..Len(q)}

\* the record a logging call of the loop stands for
RecordOf(e) == LogRecord(LevelNo(e.level), e.message, e.extra)

\* the records of all logging calls made so far, in call order
EmittedRecords == [k \in 1..Len(emitted) |-> RecordOf(emitted[k])]

\* the try block was entered and left, and the process is over
SessionOver == pc = "done" \/ (pc = "raised" /\ pending /= "KeyboardInterrupt")

\* the loop ran to its end: no interrupt, no exception
CompletedNormally == pc = "done" /\ interruptedAt = -1

\* the transport the command line asks for cannot be imported
RequestedUnavailable == IF args_http THEN ~httpAvail ELSE ~grpcAvail

(***************************************************************************)
(* C1: after a run that completes the loop normally with no delivery       *)
(* error, the transport has observed exactly the records of the            *)
(* NumRecords logging calls, each once, whatever severity was drawn.       *)
(***************************************************************************)
C1_AllEmittedObserved ==
    (CompletedNormally /\ failed = <<>>)
        => /\ Len(emitted) = NumRecords
           /\ transport = EmittedRecords

(***************************************************************************)
(* C2: logger_provider.shutdown() is called exactly once on every way out  *)
(* of the try block (normal end, KeyboardInterrupt, other exception):      *)
(* never before the block is left, never twice, and once when it is over.  *)
(***************************************************************************)
C2_ShutdownExactlyOnce ==
    /\ shutdownCalls <= 1
    /\ pc \in LoopPcs \cup {"except", "finally"} => shutdownCalls = 0
    /\ SessionOver => shutdownCalls = 1

C2_Witness ==
    /\ pc = "raised"
    /\ pending = "Exception"
    /\ Len(emitted) = 1
    /\ shutdownCalls = 1

(***************************************************************************)
(* C3: when the interrupt hits after exactly k logging calls, exactly the  *)
(* records of those k calls have been observed by the transport once the   *)
(* terminal flush is done (no delivery error), no further logging call is  *)
(* made, and shutdown has run before the process ends.                     *)
(***************************************************************************)
C3_InterruptedFlushesEmitted ==
    (pc = "done" /\ interruptedAt >= 0 /\ failed = <<>>)
        => /\ Len(emitted) = interruptedAt
           /\ shutdownCalls = 1
           /\ transport = EmittedRecords

(***************************************************************************)
(* C4: when the requested exporter cannot be imported the process ends at  *)
(* get_exporter with exit status 1: no logging call was made, no logger    *)
(* provider or batch processor exists and no handler is registered.        *)
(***************************************************************************)
C4_FailFast ==
    /\ (RequestedUnavailable /\ pc \notin {"parse_args", "resource", "get_exporter"})
           => pc \in {"exited", "raised"}
    /\ pc = "exited"
           => /\ RequestedUnavailable
              /\ exitStatus = 1
              /\ emitted = <<>> /\ handed = <<>> /\ transport = <<>>
              /\ logger_provider = "none"
              /\ processors = 0
              /\ rootHandlers = 0
              /\ shutdownCalls = 0

C4_Witness ==
    /\ pc = "exited"
    /\ args_http
    /\ ~httpAvail
    /\ exitStatus = 1

(***************************************************************************)
(* C5: get_exporter never falls back: the exporter main() holds is the one *)
(* of the requested transport with its hardcoded endpoint, and when that   *)
(* transport is unavailable main() holds none, even if the other one is    *)
(* available.                                                              *)
(***************************************************************************)
C5_NoFallback ==
    /\ otlp_exporter /= NoExporter
           => /\ ~RequestedUnavailable
              /\ args_http
                     => /\ otlp_exporter.protocol = "http"
                        /\ otlp_exporter.endpoint = "http://localhost:4318/v1/logs"
              /\ ~args_http
                     => /\ otlp_exporter.protocol = "grpc"
                        /\ otlp_exporter.endpoint = "localhost:4317"
                        /\ otlp_exporter.insecure
    /\ (RequestedUnavailable /\ pc \notin {"parse_args", "resource", "get_exporter"})
           => otlp_exporter = NoExporter /\ pc \in {"exited", "raised"}

C5_Witness ==
    /\ pc = "exited"
    /\ ~args_http
    /\ ~grpcAvail
    /\ httpAvail
    /\ otlp_exporter = NoExporter

(***************************************************************************)
(* C6: the order in which records are handed to the batch processor and    *)
(* observed by the transport is the order of the logging calls: a record   *)
(* of an earlier iteration never comes after one of a later iteration,     *)
(* within a batch or across batches.                                       *)
(***************************************************************************)
\* q[a..] is a subsequence of s[b..]: its records occur there in the
\* same order
RECURSIVE SubseqFrom(_, _, _, _)
SubseqFrom(q, s, a, b) ==
    IF a > Len(q) THEN TRUE
    ELSE IF b > Len(s) THEN FALSE
    ELSE IF q[a] = s[b] THEN SubseqFrom(q, s, a + 1, b + 1)
    ELSE SubseqFrom(q, s, a, b + 1)

\* the records of the logging calls are pairwise distinct, so a sequence
\* is in emission order exactly when it is a subsequence of them
InEmissionOrder(q) == SubseqFrom(q, EmittedRecords, 1, 1)

C7_DeliveredOrSurfaced ==
    (SessionOver /\ shutdownCalls = 1)
        => \A k \in 1..Len(handed) :
              handed[k] \in Range(transport) \/ handed[k] \in Range(surfaced)

(***************************************************************************)
(* C8: a failed export does not end the loop: in a run with a delivery     *)
(* failure and neither an interrupt nor an exception of another origin,    *)
(* all NumRecords iterations run and shutdown completes.                   *)
(***************************************************************************)
C8_DeliveryErrorNotFatal ==
    /\ (failed /= <<>> /\ interruptedAt = -1 /\ pending /= "Exception")
           => /\ pc \notin {"except", "raised", "exited"}
              /\ pc = "finally" => i = NumRecords
              /\ pc = "done"
                     => /\ i = NumRecords
                        /\ Len(emitted) = NumRecords
                        /\ printed = NumRecords
                        /\ shutdownCalls = 1
                        /\ logger_provider = "shutdown"
                        /\ exitStatus = 0

C8_Witness ==
    /\ pc = "done"
    /\ interruptedAt = -1
    /\ Len(failed) = 1
    /\ Len(transport) = 1
    /\ Len(emitted) = NumRecords

(***************************************************************************)
(* C9: after logger_provider.shutdown() has been called no logging call    *)
(* of the loop is made any more and no record is accepted.                 *)
(***************************************************************************)
C9_NoEmissionAfterShutdown ==
    [][shutdownCalls >= 1
          => /\ emitted' = emitted
             /\ handed' = handed
             /\ queue' = queue
             /\ pc' \notin LoopPcs]_vars

C9_Witness ==
    /\ pc = "done"
    /\ interruptedAt = 1
    /\ i < NumRecords
    /\ shutdownCalls = 1

(***************************************************************************)
(* C10: the records handed to the batch processor and the number of        *)
(* shutdown calls are a function of the random choices and of where the    *)
(* run was interrupted, in which the transport flag does not occur; so     *)
(* two runs that differ only in the flag hand over the same records in     *)
(* the same order and call shutdown equally often.                         *)
(***************************************************************************)
\* the record iteration k (from 0) hands over when random.choice picked
\* catalog entry c
ExpectedRecord(k, c) ==
    [severity_number |->
        CASE log_messages[c][1] = "TRACE" -> 5
          [] log_messages[c][1] = "DEBUG" -> 10
          [] log_messages[c][1] = "INFO" -> 20
          [] log_messages[c][1] = "WARNING" -> 30
          [] log_messages[c][1] = "ERROR" -> 40
          [] log_messages[c][1] = "FATAL" -> 50,
     body |-> log_messages[c][2],
     attributes |-> RandomExtra(k, c + k),
     resource |-> [service_name |-> "example-python-app",
                   service_version |-> "1.0.0",
                   environment |-> "development",
                   host_name |-> "localhost"]]

AtLeastInfo(rec) == rec.severity_number >= 20

ExpectedHanded ==
    SelectSeq([k \in 1..Len(emitted) |-> ExpectedRecord(k - 1, choices[k])],
              AtLeastInfo)

C10_FlagIndependent ==
    /\ handed = ExpectedHanded
    /\ shutdownCalls = IF SessionOver THEN 1 ELSE 0

C10_Witness ==
    /\ pc = "done"
    /\ args_http
    /\ otlp_exporter.protocol = "http"
    /\ Len(handed) = 2
    /\ handed[1].body /= handed[2].body

(***************************************************************************)
(* C11: a KeyboardInterrupt inside the loop is caught: the run goes        *)
(* through the same finally block as a normal end and main() returns with  *)
(* status 0 and no exception in flight; any other exception raised inside  *)
(* the loop propagates after the shutdown, with a non-zero status.         *)
(***************************************************************************)
C11_InterruptIsCleanExit ==
    /\ interruptedAt >= 0
           => /\ pc \in {"except", "finally", "done"}
              /\ pending = "none"
              /\ pc = "done" => exitStatus = 0 /\ shutdownCalls = 1
    /\ pc = "done" => exitStatus = 0 /\ pending = "none" /\ shutdownCalls = 1
    /\ pending = "Exception"
           => /\ pc \in {"finally", "raised"}
              /\ pc = "raised" => exitStatus /= 0 /\ shutdownCalls = 1

C11_Witness ==
    /\ pc = "done"
    /\ interruptedAt = 1
    /\ exitStatus = 0
    /\ logger_provider = "shutdown"
    /\ Len(transport) = 1

(***************************************************************************)
(* C12: every record the loop constructs is well-formed: its severity tag  *)
(* is one of the six levels and the six attribute keys are present with    *)
(* non-empty values of their fixed ranges and sets; and the catalog has    *)
(* an entry for each of the six levels.                                    *)
(***************************************************************************)
Severities == {"TRACE", "DEBUG", "INFO", "WARNING", "ERROR", "FATAL"}

AttributeKeys ==
    {"request_id", "user_id", "latency_ms", "endpoint", "method", "status_code"}

UserIdStrings == {"user_" \o ToString(n) : n \in 100..999}

WellFormed(e) ==
    /\ e.level \in Severities
    /\ e.message /= ""
    /\ DOMAIN e.extra = AttributeKeys
    /\ e.extra.request_id /= ""
    /\ e.extra.user_id \in UserIdStrings
    /\ e.extra.latency_ms \in 10..500
    /\ e.extra.endpoint \in {"/api/users", "/api/products", "/api/orders"}
    /\ e.extra.method \in {"GET", "POST", "PUT", "DELETE"}
    /\ e.extra.status_code \in {200, 201, 400, 404, 500}

C12_RecordsWellFormed ==
    /\ pc \in {"log", "sleep"} => WellFormed(cur)
    /\ \A k \in 1..Len(emitted) : WellFormed(emitted[k])
    /\ \A s \in Severities : \E c \in 1..Len(log_messages) : log_messages[c][1] = s

C12_Witness ==
    /\ pc = "log"
    /\ i = 1
    /\ cur.level = "TRACE"
    /\ cur.extra.request_id = "req_0001"
    /\ Len(emitted) = 1

(***************************************************************************)
(* C13: the record of the k-th iteration (k from 0) carries request_id     *)
(* "req_" followed by k zero-padded to four digits, whatever the random    *)
(* draws were; so the request ids of a session are pairwise distinct and   *)
(* ascend in emission order.                                               *)
(***************************************************************************)
DecimalDigit == <<"0", "1", "2", "3", "4", "5", "6", "7", "8", "9">>

\* "req_" and the four decimal digits of k, for k < 10000
ExpectedRequestId(k) ==
    "req_" \o DecimalDigit[(k \div 1000) + 1]
           \o DecimalDigit[((k \div 100) % 10) + 1]
           \o DecimalDigit[((k \div 10) % 10) + 1]
           \o DecimalDigit[(k % 10) + 1]

\* the ids of all RangeStop iterations, for every sampled random outcome
RequestIdsOfFullLoop ==
    /\ \A k \in 0..(RangeStop - 1), r \in 0..(Len(log_messages) + RangeStop) :
          RandomExtra(k, r).request_id = ExpectedRequestId(k)
    /\ \A a, b \in 0..(RangeStop - 1) :
          a /= b => RandomExtra(a, 0).request_id /= RandomExtra(b, 0).request_id

C13_SequentialRequestIds ==
    /\ RequestIdsOfFullLoop
    /\ pc \in {"log", "sleep"} => cur.extra.request_id = ExpectedRequestId(i)
    /\ \A k \in 1..Len(emitted) :
          emitted[k].extra.request_id = ExpectedRequestId(k - 1)
    /\ \A a, b \in 1..Len(emitted) :
          a /= b => emitted[a].extra.request_id /= emitted[b].extra.request_id

C13_Witness ==
    /\ pc = "sleep"
    /\ Len(emitted) = 2
    /\ emitted[1].extra.request_id = "req_0000"
    /\ emitted[2].extra.request_id = "req_0001"
    /\ emitted[1].extra.user_id /= emitted[2].extra.user_id

(***************************************************************************)
(* C14: the severity dispatch is total, deterministic and keeps the        *)
(* order: every tag of the catalog gets a logging call (no iteration       *)
(* falls through the if/elif chain), a tag always maps to the same level   *)
(* (TRACE 5, DEBUG 10, INFO 20, WARNING 30, ERROR 40, FATAL 50), and the   *)
(* levels ascend along TRACE < DEBUG < INFO < WARNING < ERROR < FATAL.     *)
(***************************************************************************)
SeverityOrder == <<"TRACE", "DEBUG", "INFO", "WARNING", "ERROR", "FATAL">>

NumericLevel(tag) ==
    CASE tag = "TRACE" -> 5
      [] tag = "DEBUG" -> 10
      [] tag = "INFO" -> 20
      [] tag = "WARNING" -> 30
      [] tag = "ERROR" -> 40
      [] tag = "FATAL" -> 50

C14_DispatchTotalAndMonotone ==
    /\ \A c \in 1..Len(log_messages) :
          LevelNo(log_messages[c][1]) = NumericLevel(log_messages[c][1])
    /\ \A a, b \in 1..Len(SeverityOrder) :
          a < b => LevelNo(SeverityOrder[a]) < LevelNo(SeverityOrder[b])
    /\ pc = "sleep"
           => /\ Len(emitted) = i + 1
              /\ emitted[i + 1] = cur
              /\ LevelNo(cur.level) = NumericLevel(cur.level)
    /\ \A k \in 1..Len(handed) :
          \E c \in 1..Len(log_messages) :
             /\ handed[k].body = log_messages[c][2]
             /\ handed[k].severity_number = NumericLevel(log_messages[c][1])

C14_Witness ==
    /\ pc = "sleep"
    /\ cur.level = "FATAL"
    /\ Len(handed) = 1
    /\ handed[1].severity_number = 50
    /\ Len(emitted) = 2

(***************************************************************************)
(* C15: once the loop is entered the session terminates: the loop makes    *)
(* at most NumRecords logging calls, and when every logging call, sleep    *)
(* and shutdown returns the run reaches the shutdown and the end of the    *)
(* process.                                                                *)
(***************************************************************************)
C15_SessionTerminates ==
    /\ [](Len(emitted) <= NumRecords /\ i <= NumRecords)
    /\ (pc = "for") ~> (pc \in {"done", "raised"} /\ shutdownCalls = 1)

C15_Witness ==
    /\ pc = "done"
    /\ interruptedAt = -1
    /\ Len(emitted) = NumRecords
    /\ i = NumRecords
    /\ exitStatus = 0

(***************************************************************************)
(* C16: the resource and the exporter are fixed for the session: both are  *)
(* set once before the loop, no step of the loop, of the interrupt         *)
(* handling or of the shutdown changes them, and every record handed       *)
(* over or exported carries the same four resource attributes.             *)
(***************************************************************************)
ResourceKeys == {"service_name", "service_version", "environment", "host_name"}

InsideTry == pc \in LoopPcs \cup {"except", "finally"}

CarriesSessionResource(q) ==
    \A k \in 1..Len(q) :
       /\ q[k].resource = resource
       /\ DOMAIN q[k].resource = ResourceKeys

C16_SessionFixed ==
    /\ [](/\ InsideTry
              => /\ DOMAIN resource = ResourceKeys
                 /\ \A key \in ResourceKeys : resource[key] /= ""
                 /\ otlp_exporter /= NoExporter
          /\ CarriesSessionResource(handed)
          /\ CarriesSessionResource(transport)
          /\ CarriesSessionResource(failed))
    /\ [][/\ resource /= <<>> => resource' = resource
          /\ otlp_exporter /= NoExporter => otlp_exporter' = otlp_exporter
          /\ InsideTry => resource' = resource /\ otlp_exporter' = otlp_exporter]_vars

C16_Witness ==
    /\ pc = "done"
    /\ Len(transport) = 2
    /\ transport[1].resource = transport[2].resource
    /\ transport[1].resource.host_name = "localhost"
    /\ otlp_exporter.protocol = "grpc"

(***************************************************************************)
(* C17: with the root logger at INFO an iteration that draws TRACE or      *)
(* DEBUG hands no record to the batch processor, yet it prints its         *)
(* "Sent:" line and uses up its request id; the records accepted are       *)
(* exactly those of the iterations that drew INFO, WARNING, ERROR or       *)
(* FATAL.                                                                  *)
(***************************************************************************)
BelowInfo == {"TRACE", "DEBUG"}

HandedIterations == {k \in 1..Len(emitted) : emitted[k].level \notin BelowInfo}

C17_BelowInfoNotHanded ==
    /\ Len(handed) = Cardinality(HandedIterations)
    /\ printed = Len(emitted)
    /\ \A k \in 1..Len(handed) :
          /\ handed[k].severity_number \notin {5, 10}
          /\ \E a \in HandedIterations :
                handed[k].attributes.request_id = emitted[a].extra.request_id
    /\ \A a \in 1..Len(emitted) :
          emitted[a].level \in BelowInfo
              => \A k \in 1..Len(handed) :
                    handed[k].attributes.request_id /= emitted[a].extra.request_id

C17_Witness ==
    /\ pc = "sleep"
    /\ Len(emitted) = 2
    /\ emitted[1].level = "DEBUG"
    /\ emitted[2].level = "TRACE"
    /\ printed = 2
    /\ handed = <<>>

(***************************************************************************)
(* C18: main() calls logger_provider.shutdown() if and only if control     *)
(* entered the try block: a run that ends during the setup (exporter       *)
(* unavailable, or interrupt before the loop) has made no shutdown call    *)
(* and no logging call, and shutdown is only ever called on a logger       *)
(* provider that was constructed and wired.                                *)
(***************************************************************************)
EnteredTry ==
    \/ pc \in LoopPcs \cup {"except", "finally", "done"}
    \/ pc = "raised" /\ pending /= "KeyboardInterrupt"

C18_ShutdownOnlyFromTry ==
    /\ shutdownCalls >= 1
           => /\ EnteredTry
              /\ logger_provider = "shutdown"
              /\ processors = 1
              /\ rootHandlers = 1
              /\ otlp_exporter /= NoExporter
    /\ (EnteredTry /\ pc \in FinalPcs) => shutdownCalls = 1
    /\ logger_provider = "shutdown" => shutdownCalls = 1
    /\ ~EnteredTry
           => /\ shutdownCalls = 0
              /\ logger_provider \in {"none", "active"}
              /\ emitted = <<>>
              /\ printed = 0
              /\ handed = <<>>
              /\ transport = <<>>

C18_Witness ==
    /\ pc = "raised"
    /\ pending = "KeyboardInterrupt"
    /\ logger_provider = "active"
    /\ rootHandlers = 1
    /\ shutdownCalls = 0
    /\ emitted = <<>>
====
